---------------------------- MODULE Spec2Model ----------------------------
(***************************************************************************)
(* A model of the ThemeManager class of the portfolio site: the theme and  *)
(* language preference coordinator that runs in a browser page.            *)
(*                                                                         *)
(* Strings of the source that hold non-ASCII characters (the translated    *)
(* texts and the two button icons) are written here in an ASCII            *)
(* transliteration; only their identity and non-emptiness matter.          *)
(***************************************************************************)
EXTENDS Naturals, Sequences, FiniteSets, TLC

(***************************************************************************)
(* Bounds of the model.                                                    *)
(***************************************************************************)
\* At most MaxCalls theme and language changes are followed per page load,
\* after the two the constructor makes.
MaxCalls == 2

(***************************************************************************)
(* Constants of the class (constructor, lines 13-17).                      *)
(***************************************************************************)
THEME_STORAGE_KEY == "portfolio-theme"
LANGUAGE_STORAGE_KEY == "portfolio-language"
THEME_CLASS == "dark-theme"
TRANSITION_CLASS == "theme-transition"
SUPPORTED_LANGUAGES == <<"en", "es", "fr", "de", "it", "pt", "ja", "zh">>

\* Array.prototype.includes on SUPPORTED_LANGUAGES.
SupportedIncludes_Any(code) == TRUE
SupportedIncludes(code) == \E i \in 1..Len(SUPPORTED_LANGUAGES) : SUPPORTED_LANGUAGES[i] = code

(***************************************************************************)
(* JavaScript values.  A storage slot or a nullable result is a sequence:  *)
(* <<>> is null, <<v>> is the string v.                                    *)
(***************************************************************************)
Null == <<>>
Some(v) == <<v>>
\* Truthiness of a nullable string: null and "" are falsy.
TruthyItem(item) == item # Null /\ item[1] # ""

(***************************************************************************)
(* DOMTokenList (element.classList): an ordered set of class names.        *)
(***************************************************************************)
ClassListContains(list, cls) == \E i \in 1..Len(list) : list[i] = cls
ClassListAdd_Duplicating(list, cls) == Append(list, cls)
ClassListAdd(list, cls) == IF ClassListContains(list, cls) THEN list ELSE Append(list, cls)
ClassListRemove(list, cls) == SelectSeq(list, LAMBDA c : c # cls)

(***************************************************************************)
(* detectBrowserLanguage: the locale is a sequence of characters.          *)
(***************************************************************************)
UpperCase == <<"A", "B", "C", "D", "E", "F", "G", "H", "I", "J", "K", "L", "M",
               "N", "O", "P", "Q", "R", "S", "T", "U", "V", "W", "X", "Y", "Z">>
LowerCase == <<"a", "b", "c", "d", "e", "f", "g", "h", "i", "j", "k", "l", "m",
               "n", "o", "p", "q", "r", "s", "t", "u", "v", "w", "x", "y", "z">>
\* String.prototype.toLowerCase on one character.
ToLowerChar(c) ==
    IF \E i \in 1..26 : UpperCase[i] = c
    THEN LowerCase[CHOOSE i \in 1..26 : UpperCase[i] = c]
    ELSE c
\* String.prototype.toLowerCase, giving the string the characters spell.
RECURSIVE ToLowerCase(_)
ToLowerCase(chars) ==
    IF chars = <<>> THEN "" ELSE ToLowerChar(Head(chars)) \o ToLowerCase(Tail(chars))
\* browserLang.split('-')[0]: the characters before the first '-'.
SplitFirst_Whole(chars) == chars
RECURSIVE SplitFirst(_)
SplitFirst(chars) ==
    IF chars = <<>> \/ Head(chars) = "-" THEN <<>>
    ELSE <<Head(chars)>> \o SplitFirst(Tail(chars))

detectBrowserLanguage(browserLang) ==
    LET langCode == ToLowerCase(SplitFirst(browserLang))
    IN  IF SupportedIncludes(langCode) THEN langCode ELSE "en"

(***************************************************************************)
(* updateThemeVariables: the 7 CSS custom properties of each theme.        *)
(***************************************************************************)
CssVariables == {"--bg-primary", "--bg-secondary", "--text-primary", "--text-secondary",
                 "--border-color", "--shadow-color", "--accent-color"}
DarkVariables ==
    [v \in CssVariables |->
        CASE v = "--bg-primary"     -> "#1a1a1a"
          [] v = "--bg-secondary"   -> "#2d2d2d"
          [] v = "--text-primary"   -> "#ffffff"
          [] v = "--text-secondary" -> "#b0b0b0"
          [] v = "--border-color"   -> "#404040"
          [] v = "--shadow-color"   -> "rgba(0, 0, 0, 0.3)"
          [] v = "--accent-color"   -> "#6366f1"]
LightVariables ==
    [v \in CssVariables |->
        CASE v = "--bg-primary"     -> "#ffffff"
          [] v = "--bg-secondary"   -> "#f5f5f5"
          [] v = "--text-primary"   -> "#1a1a1a"
          [] v = "--text-secondary" -> "#666666"
          [] v = "--border-color"   -> "#e0e0e0"
          [] v = "--shadow-color"   -> "rgba(0, 0, 0, 0.1)"
          [] v = "--accent-color"   -> "#6366f1"]
\* The inline style of a freshly loaded document sets none of them.
UnsetVariables == [v \in CssVariables |-> ""]

(***************************************************************************)
(* getTranslation: the table, and JavaScript property lookup on it.        *)
(***************************************************************************)
TranslationKeys == {"page-title", "page-description", "theme-toggle", "language-select"}
translations ==
    [l \in {SUPPORTED_LANGUAGES[i] : i \in 1..Len(SUPPORTED_LANGUAGES)} |->
      [k \in TranslationKeys |->
        CASE l = "en" /\ k = "page-title"       -> "Portfolio"
          [] l = "en" /\ k = "page-description" -> "Welcome to my portfolio"
          [] l = "en" /\ k = "theme-toggle"     -> "Toggle Theme"
          [] l = "en" /\ k = "language-select"  -> "Select Language"
          [] l = "es" /\ k = "page-title"       -> "Portafolio"
          [] l = "es" /\ k = "page-description" -> "Bienvenido a mi portafolio"
          [] l = "es" /\ k = "theme-toggle"     -> "Cambiar Tema"
          [] l = "es" /\ k = "language-select"  -> "Seleccionar Idioma"
          [] l = "fr" /\ k = "page-title"       -> "Portefeuille"
          [] l = "fr" /\ k = "page-description" -> "Bienvenue dans mon portefeuille"
          [] l = "fr" /\ k = "theme-toggle"     -> "Basculer le theme"
          [] l = "fr" /\ k = "language-select"  -> "Selectionner la langue"
          [] l = "de" /\ k = "page-title"       -> "Portfolio"
          [] l = "de" /\ k = "page-description" -> "Willkommen in meinem Portfolio"
          [] l = "de" /\ k = "theme-toggle"     -> "Design wechseln"
          [] l = "de" /\ k = "language-select"  -> "Sprache waehlen"
          [] l = "it" /\ k = "page-title"       -> "Portafoglio"
          [] l = "it" /\ k = "page-description" -> "Benvenuto nel mio portfolio"
          [] l = "it" /\ k = "theme-toggle"     -> "Cambia tema"
          [] l = "it" /\ k = "language-select"  -> "Seleziona lingua"
          [] l = "pt" /\ k = "page-title"       -> "Portfo'lio"
          [] l = "pt" /\ k = "page-description" -> "Bem-vindo ao meu portfolio"
          [] l = "pt" /\ k = "theme-toggle"     -> "Alternar tema"
          [] l = "pt" /\ k = "language-select"  -> "Selecionar idioma"
          [] l = "ja" /\ k = "page-title"       -> "Potoforio"
          [] l = "ja" /\ k = "page-description" -> "Potoforio e yokoso"
          [] l = "ja" /\ k = "theme-toggle"     -> "Tema o kirikaeru"
          [] l = "ja" /\ k = "language-select"  -> "Gengo o sentaku"
          [] l = "zh" /\ k = "page-title"       -> "Zuopin ji"
          [] l = "zh" /\ k = "page-description" -> "Huanying laidao wo de zuopin ji"
          [] l = "zh" /\ k = "theme-toggle"     -> "Qiehuan zhuti"
          [] l = "zh" /\ k = "language-select"  -> "Xuanze yuyan"]]

\* The table is an object literal, so a lookup that finds no own property goes
\* on to Object.prototype.  These are some of the names found there.
ObjectPrototypeKeys == {"constructor", "toString", "valueOf", "hasOwnProperty"}

\* The values a lookup can give.
Undefined == [type |-> "undefined", value |-> ""]
StringValue(s) == [type |-> "string", value |-> s]
InheritedValue(k) == [type |-> "function", value |-> k]
Truthy(v) == v.type = "function" \/ (v.type = "string" /\ v.value # "")

\* translations[langCode]?.[key].  For the names used here, a member of
\* Object.prototype has the members of Object.prototype and no others.
LookupEntry(langCode, key) ==
    IF langCode \in DOMAIN translations
    THEN IF key \in DOMAIN translations[langCode] THEN StringValue(translations[langCode][key])
         ELSE IF key \in ObjectPrototypeKeys THEN InheritedValue(key)
         ELSE Undefined
    ELSE IF langCode \in ObjectPrototypeKeys
    THEN IF key \in ObjectPrototypeKeys THEN InheritedValue(key) ELSE Undefined
    ELSE Undefined

getTranslation_EnglishOnly(langCode, key) ==
    LET fallback == LookupEntry("en", key)
    IN  IF Truthy(fallback) THEN fallback ELSE StringValue(key)
getTranslation(langCode, key) ==
    LET exact == LookupEntry(langCode, key)
        fallback == LookupEntry("en", key)
    IN  IF Truthy(exact) THEN exact
        ELSE IF Truthy(fallback) THEN fallback
        ELSE StringValue(key)

\* The string an assignment to textContent, placeholder or an attribute stores.
ToDisplayString(v) ==
    IF v.type = "function" THEN "function " \o v.value \o "() { [native code] }" ELSE v.value

(***************************************************************************)
(* The document the class runs in.  The page's markup is not part of the   *)
(* class; this is a small page with three tagged elements (one of them an  *)
(* input, one with a key the table lacks), a title and a meta description. *)
(***************************************************************************)
Elements == << [tagName |-> "H1",    key |-> "page-title"],
               [tagName |-> "INPUT", key |-> "language-select"],
               [tagName |-> "SPAN",  key |-> "nav-home"] >>
MarkupText == "markup text"
\* The language selector offers the supported codes as its options.
SelectOptions == {SUPPORTED_LANGUAGES[i] : i \in 1..Len(SUPPORTED_LANGUAGES)}

\* Delays of the three setTimeout calls, in milliseconds.
ThemeCleanupDelay == 300
LanguageSwapDelay == 150
FadeCleanupDelay == 300

\* A document as the browser builds it from the markup, before any script.
FreshDocument(store, available, toggle, select) ==
    [ storage         |-> store,
      storageAvailable |-> available,
      uncaught        |-> FALSE,
      classList       |-> <<>>,
      lang            |-> "",
      style           |-> [opacity |-> "", transition |-> ""],
      css             |-> UnsetVariables,
      text            |-> [i \in 1..Len(Elements) |->
                             IF Elements[i].tagName \in {"INPUT", "TEXTAREA"}
                             THEN [textContent |-> "", placeholder |-> MarkupText]
                             ELSE [textContent |-> MarkupText, placeholder |-> ""]],
      title           |-> MarkupText,
      metaDescription |-> MarkupText,
      hasToggle       |-> toggle,
      toggleButton    |-> [ariaLabel |-> "", innerHTML |-> ""],
      hasSelect       |-> select,
      selectValue     |-> "",
      animationStyles |-> FALSE,
      timers          |-> <<>>,
      themeEvents     |-> <<>>,
      languageEvents  |-> <<>>,
      page            |-> "loading" ]

\* localStorage.getItem, setItem, removeItem.  There is no try/catch in the
\* class: when the store is unavailable each of them throws, and the handler
\* that called it ends there, with `uncaught' set.
Throws(s) == [s EXCEPT !.uncaught = TRUE]
getItem(store, key) == store[key]
setItem_Replacing(store, key, value) ==
    [k \in DOMAIN store |-> IF k = key THEN Some(value) ELSE Null]
setItem_Dropped(store, key, value) == store
setItem(store, key, value) == [store EXCEPT ![key] = Some(value)]
removeItem(store, key) == [store EXCEPT ![key] = Null]

\* A pending setTimeout callback: what it does, the time left, its closure.
Timer(kind, due, langCode, animate) ==
    [kind |-> kind, due |-> due, langCode |-> langCode, animate |-> animate]

(***************************************************************************)
(* The methods of ThemeManager, as functions from document to document.    *)
(***************************************************************************)
updateThemeVariables(css, isDark) ==
    [v \in DOMAIN css |-> IF isDark THEN DarkVariables[v] ELSE LightVariables[v]]

dispatchThemeChangeEvent(events, isDark) ==
    Append(events, [isDark |-> isDark, theme |-> IF isDark THEN "dark" ELSE "light"])

dispatchLanguageChangeEvent_Default(events, langCode) ==
    Append(events, [langCode |-> "en", language |-> "en"])
dispatchLanguageChangeEvent(events, langCode) ==
    Append(events, [langCode |-> langCode, language |-> langCode])

setTheme(s, isDark, animate) ==
    LET withTransition == IF animate THEN ClassListAdd(s.classList, TRANSITION_CLASS)
                          ELSE s.classList
        withTheme == IF isDark THEN ClassListAdd(withTransition, THEME_CLASS)
                     ELSE ClassListRemove(withTransition, THEME_CLASS)
    IN  IF ~s.storageAvailable THEN Throws([s EXCEPT !.classList = withTheme]) ELSE
        [s EXCEPT !.classList = withTheme,
                  !.storage = setItem(@, THEME_STORAGE_KEY, IF isDark THEN "dark" ELSE "light"),
                  !.css = updateThemeVariables(@, isDark),
                  !.themeEvents = dispatchThemeChangeEvent(@, isDark),
                  !.timers = IF animate
                             THEN Append(@, Timer("themeCleanup", ThemeCleanupDelay, "", FALSE))
                             ELSE @]

setLanguage(s, requested, animate) ==
    LET langCode == IF ~SupportedIncludes(requested) THEN "en" ELSE requested
        faded == IF animate
                 THEN [opacity |-> "0.7", transition |-> "opacity 0.3s ease-in-out"]
                 ELSE s.style
    IN  IF ~s.storageAvailable THEN Throws([s EXCEPT !.style = faded, !.lang = langCode]) ELSE
        [s EXCEPT !.style = faded,
                  !.lang = langCode,
                  !.storage = setItem(@, LANGUAGE_STORAGE_KEY, langCode),
                  !.timers = Append(@, Timer("languageSwap", LanguageSwapDelay, langCode, animate))]

updatePageTranslations_Skipped(s, langCode) == s
updatePageTranslations(s, langCode) ==
    [s EXCEPT !.text = [i \in DOMAIN @ |->
                          LET translation == ToDisplayString(getTranslation(langCode, Elements[i].key))
                          IN  IF Elements[i].tagName \in {"INPUT", "TEXTAREA"}
                              THEN [@[i] EXCEPT !.placeholder = translation]
                              ELSE [@[i] EXCEPT !.textContent = translation]],
              !.title = ToDisplayString(getTranslation(langCode, "page-title")),
              !.metaDescription = ToDisplayString(getTranslation(langCode, "page-description"))]

updateThemeToggleButton(s) ==
    IF s.hasToggle
    THEN LET isDark == ClassListContains(s.classList, THEME_CLASS)
         IN  [s EXCEPT !.toggleButton =
                 [ariaLabel |-> IF isDark THEN "Switch to light theme" ELSE "Switch to dark theme",
                  innerHTML |-> IF isDark THEN "sun" ELSE "moon"]]
    ELSE s

toggleTheme_NoFlip(s) ==
    LET isDark == ClassListContains(s.classList, THEME_CLASS)
    IN  updateThemeToggleButton(setTheme(s, isDark, TRUE))
toggleTheme(s) ==
    LET isDark == ClassListContains(s.classList, THEME_CLASS)
        themed == setTheme(s, ~isDark, TRUE)
    IN  IF themed.uncaught THEN themed ELSE updateThemeToggleButton(themed)

\* The resolution of initializeTheme (lines 29-33).
ResolveTheme_OsFirst(savedTheme, osDark) == osDark
ResolveTheme(savedTheme, osDark) ==
    IF TruthyItem(savedTheme) THEN savedTheme[1] = "dark" ELSE osDark

initializeTheme_Animated(s, osDark) ==
    setTheme(s, ResolveTheme(getItem(s.storage, THEME_STORAGE_KEY), osDark), TRUE)
initializeTheme(s, osDark) ==
    IF ~s.storageAvailable THEN Throws(s) ELSE
    setTheme(s, ResolveTheme(getItem(s.storage, THEME_STORAGE_KEY), osDark), FALSE)

\* The listener initializeTheme registers for changes of the OS preference.
SystemThemeListener_Unguarded(s, matches) == setTheme(s, matches, TRUE)
SystemThemeListener(s, matches) ==
    IF ~s.storageAvailable THEN Throws(s) ELSE
    IF ~TruthyItem(getItem(s.storage, THEME_STORAGE_KEY))
    THEN setTheme(s, matches, TRUE)
    ELSE s

initializeLanguage(s, browserLang) ==
    LET savedLanguage == getItem(s.storage, LANGUAGE_STORAGE_KEY)
    IN  IF ~s.storageAvailable THEN Throws(s) ELSE
        IF TruthyItem(savedLanguage) /\ SupportedIncludes(savedLanguage[1])
        THEN setLanguage(s, savedLanguage[1], FALSE)
        ELSE setLanguage(s, detectBrowserLanguage(browserLang), FALSE)

setupEventListeners_FromBrowser(s, browserLang) ==
    LET withButton == updateThemeToggleButton(s)
        currentLang == detectBrowserLanguage(browserLang)
    IN  IF withButton.hasSelect
        THEN [withButton EXCEPT !.selectValue =
                 IF currentLang \in SelectOptions THEN currentLang ELSE ""]
        ELSE withButton
setupEventListeners(s, browserLang) ==
    LET withButton == updateThemeToggleButton(s)
        saved == getItem(withButton.storage, LANGUAGE_STORAGE_KEY)
        currentLang == IF TruthyItem(saved) THEN saved[1] ELSE detectBrowserLanguage(browserLang)
    IN  IF withButton.hasSelect
        THEN IF ~s.storageAvailable THEN Throws(withButton) ELSE
             [withButton EXCEPT !.selectValue =
                 IF currentLang \in SelectOptions THEN currentLang ELSE ""]
        ELSE withButton

\* The change listener of the language selector (lines 274-276).
LanguageSelectListener(s, value) == setLanguage([s EXCEPT !.selectValue = value], value, TRUE)

applyAnimationStyles(s) == [s EXCEPT !.animationStyles = TRUE]

\* new ThemeManager(), run once per page load.  A method that throws ends the
\* constructor: the methods after it do not run and there is no instance.
constructor(s, osDark, browserLang) ==
    LET themed == initializeTheme(s, osDark)
        spoken == IF themed.uncaught THEN themed ELSE initializeLanguage(themed, browserLang)
        wired == IF spoken.uncaught THEN spoken ELSE setupEventListeners(spoken, browserLang)
    IN  IF wired.uncaught THEN [wired EXCEPT !.page = "failed"]
        ELSE [applyAnimationStyles(wired) EXCEPT !.page = "ready"]

\* resetToSystemPreferences: the reload replaces the document and drops its timers.
resetToSystemPreferences_KeepsStore(s) ==
    FreshDocument(s.storage, s.storageAvailable, s.hasToggle, s.hasSelect)
resetToSystemPreferences(s) ==
    IF ~s.storageAvailable THEN Throws(s) ELSE
    FreshDocument(removeItem(removeItem(s.storage, THEME_STORAGE_KEY), LANGUAGE_STORAGE_KEY),
                  s.storageAvailable, s.hasToggle, s.hasSelect)

\* The callbacks of the three setTimeout calls.
RemoveAt(seq, i) == SubSeq(seq, 1, i - 1) \o SubSeq(seq, i + 1, Len(seq))
\* setTheme's callback (lines 101-103).
themeCleanupCallback_Forgotten(s) == s
themeCleanupCallback(s) == [s EXCEPT !.classList = ClassListRemove(@, TRANSITION_CLASS)]
\* setLanguage's inner callback (lines 136-138).
fadeCleanupCallback_Forgotten(s) == s
fadeCleanupCallback(s) == [s EXCEPT !.style.transition = ""]
\* setLanguage's callback (lines 131-143).
languageSwapCallback(s, langCode, animate) ==
    LET swapped == updatePageTranslations(s, langCode)
        faded == IF animate
                 THEN [swapped EXCEPT
                         !.style.opacity = "1",
                         !.timers = Append(@, Timer("fadeCleanup", FadeCleanupDelay, "", FALSE))]
                 ELSE swapped
    IN  [faded EXCEPT !.languageEvents = dispatchLanguageChangeEvent(@, langCode)]
fireTimer(s, i) ==
    LET t == s.timers[i]
        rest == [s EXCEPT !.timers = RemoveAt(@, i)]
    IN  CASE t.kind = "themeCleanup" -> themeCleanupCallback(rest)
          [] t.kind = "languageSwap" -> languageSwapCallback(rest, t.langCode, t.animate)
          [] t.kind = "fadeCleanup"  -> fadeCleanupCallback(rest)

(***************************************************************************)
(* The state: the local store, the document, the pending timers, the       *)
(* events emitted since the page loaded, and the dark-mode signal.  The     *)
(* locale the browser reports is an input of the step that reads it.       *)
(***************************************************************************)
VARIABLES
    storage,            \* localStorage: key -> Null or Some(value)
    storageAvailable,   \* localStorage can be read and written
    uncaught,           \* the last handler ended with an uncaught exception
    classList,          \* classes of the root element
    lang,               \* lang attribute of the root element
    style,              \* inline opacity and transition of the root element
    css,                \* inline values of the 7 custom properties
    text,               \* text and placeholder of the tagged elements
    title,              \* text of the title element
    metaDescription,    \* content of the meta description
    hasToggle,          \* the page has the #theme-toggle button
    toggleButton,       \* its aria-label and innerHTML
    hasSelect,          \* the page has the #language-select control
    selectValue,        \* its value
    animationStyles,    \* the #theme-animations style element is in the head
    timers,             \* pending setTimeout callbacks, in order of creation
    themeEvents,        \* themeChange events dispatched since the load
    languageEvents,     \* languageChange events dispatched since the load
    page,               \* "loading" before the constructor ran, then "ready"
    prefersDark,        \* matchMedia('(prefers-color-scheme: dark)').matches
    last,               \* the last step taken, with what it was given and read
    streak,             \* 2 when the step before it was the same call, else 1
    explicitChoice      \* a theme was stored at load or chosen since

docVars == <<storage, storageAvailable, uncaught, classList, lang, style, css, text, title, metaDescription, hasToggle,
             toggleButton, hasSelect, selectValue, animationStyles, timers, themeEvents,
             languageEvents, page>>
vars == <<docVars, prefersDark, last, streak, explicitChoice>>

\* The document and store as one record, as a handler finds them when it
\* starts, and the step that installs one.
Cur ==
    [ storage |-> storage, storageAvailable |-> storageAvailable, uncaught |-> FALSE,
      classList |-> classList, lang |-> lang, style |-> style,
      css |-> css, text |-> text, title |-> title, metaDescription |-> metaDescription,
      hasToggle |-> hasToggle, toggleButton |-> toggleButton, hasSelect |-> hasSelect,
      selectValue |-> selectValue, animationStyles |-> animationStyles, timers |-> timers,
      themeEvents |-> themeEvents, languageEvents |-> languageEvents, page |-> page ]
Starts(n) ==
    /\ storage = n.storage /\ storageAvailable = n.storageAvailable
    /\ uncaught = n.uncaught /\ classList = n.classList /\ lang = n.lang
    /\ style = n.style /\ css = n.css /\ text = n.text /\ title = n.title
    /\ metaDescription = n.metaDescription /\ hasToggle = n.hasToggle
    /\ toggleButton = n.toggleButton /\ hasSelect = n.hasSelect
    /\ selectValue = n.selectValue /\ animationStyles = n.animationStyles
    /\ timers = n.timers /\ themeEvents = n.themeEvents
    /\ languageEvents = n.languageEvents /\ page = n.page
Becomes(n) ==
    /\ storage' = n.storage /\ storageAvailable' = n.storageAvailable
    /\ uncaught' = n.uncaught /\ classList' = n.classList /\ lang' = n.lang
    /\ style' = n.style /\ css' = n.css /\ text' = n.text /\ title' = n.title
    /\ metaDescription' = n.metaDescription /\ hasToggle' = n.hasToggle
    /\ toggleButton' = n.toggleButton /\ hasSelect' = n.hasSelect
    /\ selectValue' = n.selectValue /\ animationStyles' = n.animationStyles
    /\ timers' = n.timers /\ themeEvents' = n.themeEvents
    /\ languageEvents' = n.languageEvents /\ page' = n.page

\* Two records of `last' are the same call; a toggle is a toggle whatever it read.
SameCall(a, b) == a.op = b.op /\ (a.op = "toggleTheme" \/ a = b)
Did(call) == last' = call /\ streak' = IF SameCall(call, last) THEN 2 ELSE 1

(***************************************************************************)
(* The inputs the model draws from.                                        *)
(***************************************************************************)
\* What the store may hold when the page is first opened.
StoredThemes == {Null, Some("light"), Some("dark")}
StoredLanguages == {Null, Some("fr"), Some("xx")}
\* navigator.language values.
Locales == { <<"f", "r", "-", "C", "A">>, <<"F", "R">>, <<"s", "v", "-", "S", "E">> }
\* The pages: one with both controls, one with neither.
Pages == { [toggle |-> TRUE, select |-> TRUE], [toggle |-> FALSE, select |-> FALSE] }
\* Arguments of the calls of setTheme and setLanguage, and the options picked
\* in the selector.  Animated theme changes come from toggleTheme.
ThemeRequests == { [isDark |-> TRUE, animate |-> FALSE], [isDark |-> FALSE, animate |-> FALSE] }
LanguageRequests == { [langCode |-> "de", animate |-> TRUE],
                      [langCode |-> "xx", animate |-> TRUE],
                      [langCode |-> "xx", animate |-> FALSE] }
SelectedLanguages == {"de"}

\* The page is opened, in a browser whose store is or is not available.
Opened(availabilities) ==
    /\ \E th \in StoredThemes, la \in StoredLanguages, pg \in Pages, av \in availabilities :
          Starts(FreshDocument([k \in {THEME_STORAGE_KEY, LANGUAGE_STORAGE_KEY} |->
                                     IF k = THEME_STORAGE_KEY THEN th ELSE la],
                               av, pg.toggle, pg.select))
    /\ prefersDark \in BOOLEAN
    /\ last = [op |-> "open"]
    /\ streak = 1
    /\ explicitChoice = FALSE

\* The store is assumed available.
Init == Opened({TRUE})

(***************************************************************************)
(* The steps.                                                              *)
(***************************************************************************)
\* Every theme change has dispatched an event; every language change has
\* dispatched one or has its swap pending.
PendingSwaps == Len(SelectSeq(timers, LAMBDA t : t.kind = "languageSwap"))
CallsMade == Len(themeEvents) + Len(languageEvents) + PendingSwaps
MayChangeTheme == CallsMade < 2 + MaxCalls
MayChangeLanguage == CallsMade < 2 + MaxCalls

\* The page finishes loading and the script constructs the manager.
Construct(navigatorLanguage) ==
    /\ page = "loading"
    /\ Becomes(constructor(Cur, prefersDark, navigatorLanguage))
    /\ Did([op |-> "construct",
            savedTheme |-> getItem(storage, THEME_STORAGE_KEY),
            savedLanguage |-> getItem(storage, LANGUAGE_STORAGE_KEY),
            navigatorLanguage |-> navigatorLanguage,
            afterReset |-> last.op = "reset"])
    /\ explicitChoice' = TruthyItem(getItem(storage, THEME_STORAGE_KEY))
    /\ UNCHANGED prefersDark

\* A caller of window.themeManager.setTheme.
CallSetTheme(isDark, animate) ==
    /\ page = "ready"
    /\ MayChangeTheme
    /\ Becomes(setTheme(Cur, isDark, animate))
    /\ Did([op |-> "setTheme", isDark |-> isDark, animate |-> animate])
    /\ explicitChoice' = TRUE
    /\ UNCHANGED prefersDark

\* A click on the toggle button, or a caller of toggleTheme.
CallToggleTheme ==
    /\ page = "ready"
    /\ MayChangeTheme
    /\ Becomes(toggleTheme(Cur))
    /\ Did([op |-> "toggleTheme",
            wasDark |-> ClassListContains(classList, THEME_CLASS),
            savedTheme |-> getItem(storage, THEME_STORAGE_KEY)])
    /\ explicitChoice' = TRUE
    /\ UNCHANGED prefersDark

\* A caller of window.themeManager.setLanguage.
CallSetLanguage(langCode, animate) ==
    /\ page = "ready"
    /\ MayChangeLanguage
    /\ Becomes(setLanguage(Cur, langCode, animate))
    /\ Did([op |-> "setLanguage", langCode |-> langCode, animate |-> animate])
    /\ UNCHANGED <<prefersDark, explicitChoice>>

\* The user picks an option in the language selector.
SelectLanguage(value) ==
    /\ page = "ready"
    /\ hasSelect
    /\ MayChangeLanguage
    /\ Becomes(LanguageSelectListener(Cur, value))
    /\ Did([op |-> "selectLanguage", langCode |-> value])
    /\ UNCHANGED <<prefersDark, explicitChoice>>

\* The operating system's preference flips; a ready page hears of it.
SystemThemeChange ==
    /\ prefersDark' = ~prefersDark
    /\ IF page = "ready"
       THEN /\ TruthyItem(getItem(storage, THEME_STORAGE_KEY)) \/ MayChangeTheme
            /\ Becomes(SystemThemeListener(Cur, prefersDark'))
       ELSE UNCHANGED docVars
    /\ Did([op |-> "systemThemeChange", matches |-> prefersDark',
            savedTheme |-> getItem(storage, THEME_STORAGE_KEY)])
    /\ UNCHANGED explicitChoice

\* Time passes by one swap delay; no callback that is due is passed over.
Tick ==
    /\ page = "ready"
    /\ timers # <<>>
    /\ \A i \in 1..Len(timers) : timers[i].due > 0
    /\ timers' = [i \in 1..Len(timers) |->
                     [timers[i] EXCEPT !.due = @ - LanguageSwapDelay]]
    /\ Did([op |-> "tick"])
    /\ UNCHANGED <<storage, storageAvailable, uncaught, classList, lang, style, css, text,
                   title, metaDescription, hasToggle, toggleButton, hasSelect, selectValue, animationStyles,
                   themeEvents, languageEvents, page, prefersDark, explicitChoice>>

\* The delay a timer was created with.
DelayOf(t) ==
    CASE t.kind = "themeCleanup" -> ThemeCleanupDelay
      [] t.kind = "languageSwap" -> LanguageSwapDelay
      [] t.kind = "fadeCleanup"  -> FadeCleanupDelay

\* A due callback runs; callbacks of equal delay run in order of creation.
FireTimer(i) ==
    /\ page = "ready"
    /\ i \in 1..Len(timers)
    /\ timers[i].due = 0
    /\ \A j \in 1..(i - 1) : DelayOf(timers[j]) # DelayOf(timers[i])
    /\ Becomes(fireTimer(Cur, i))
    /\ Did([op |-> "timer", kind |-> timers[i].kind])
    /\ UNCHANGED <<prefersDark, explicitChoice>>

\* A caller of resetToSystemPreferences.
Reset ==
    /\ page = "ready"
    /\ Becomes(resetToSystemPreferences(Cur))
    /\ Did([op |-> "reset"])
    /\ explicitChoice' = FALSE
    /\ UNCHANGED prefersDark

Next ==
    \/ \E navigatorLanguage \in Locales : Construct(navigatorLanguage)
    \/ \E r \in ThemeRequests : CallSetTheme(r.isDark, r.animate)
    \/ CallToggleTheme
    \/ \E r \in LanguageRequests : CallSetLanguage(r.langCode, r.animate)
    \/ \E value \in SelectedLanguages : SelectLanguage(value)
    \/ SystemThemeChange
    \/ Tick
    \/ \E i \in 1..(2 + MaxCalls) : FireTimer(i)
    \/ Reset

Spec == Init /\ [][Next]_vars

\* The browser's clock advances and its event loop runs every callback that
\* is due: weak fairness of Tick and of FireTimer.  Some FireTimer(i) is
\* enabled exactly when a callback is due, and a step is a FireTimer step
\* exactly when `last' becomes a timer record, so the second condition,
\* WF_vars(\E i : FireTimer(i)), is written out.
TimerDue == page = "ready" /\ \E i \in 1..Len(timers) : timers[i].due = 0
TimerRan == last'.op = "timer"
FairSpec ==
    /\ Spec
    /\ WF_vars(Tick)
    /\ []<>(~TimerDue) \/ []<><<TimerRan>>_vars

(***************************************************************************)
(* The same page in a browser whose store may be unavailable from the      *)
(* start, or become so while the page is open: getItem, setItem and        *)
(* removeItem then throw.                                                  *)
(***************************************************************************)
StorageLost ==
    /\ storageAvailable
    /\ storageAvailable' = FALSE
    /\ Did([op |-> "storageLost"])
    /\ UNCHANGED <<storage, uncaught, classList, lang, style, css, text, title, metaDescription,
                   hasToggle, toggleButton, hasSelect, selectValue, animationStyles, timers,
                   themeEvents, languageEvents, page, prefersDark, explicitChoice>>

DegradedNext == Next \/ StorageLost

DegradedSpec == Opened(BOOLEAN) /\ [][DegradedNext]_vars

(***************************************************************************)
(* A second specification, for getTranslation alone: callers ask for any   *)
(* of these (language code, key) pairs, and `last' records the answer.     *)
(***************************************************************************)
LookupLanguages == {"en", "es", "fr", "de", "it", "pt", "ja", "zh", "xx", "", "constructor"}
LookupKeys == TranslationKeys \cup {"nav-home", "", "constructor", "toString", "valueOf",
                                     "hasOwnProperty"}

CallGetTranslation(langCode, key) ==
    /\ last' = [op |-> "getTranslation", langCode |-> langCode, key |-> key,
                result |-> getTranslation(langCode, key)]
    /\ streak' = 1
    /\ UNCHANGED <<docVars, prefersDark, explicitChoice>>

LookupNext == \E langCode \in LookupLanguages, key \in LookupKeys : CallGetTranslation(langCode, key)

LookupSpec == Init /\ [][LookupNext]_vars

(***************************************************************************)
(* Properties.                                                             *)
(***************************************************************************)
Supported == {"en", "es", "fr", "de", "it", "pt", "ja", "zh"}
IsDark == ClassListContains(classList, THEME_CLASS)
StoredTheme == getItem(storage, THEME_STORAGE_KEY)
StoredLanguage == getItem(storage, LANGUAGE_STORAGE_KEY)
ThemeName(dark) == IF dark THEN "dark" ELSE "light"
VariablesOf(dark) == IF dark THEN DarkVariables ELSE LightVariables
Occurrences(list, cls) == Cardinality({i \in 1..Len(list) : list[i] = cls})

\* C1: the constructor applies the stored theme when 'portfolio-theme' holds
\* 'light' or 'dark', whatever the OS signal says, and the OS signal when
\* nothing is stored; with nothing stored and no dark signal the theme is light.
C1_ThemePrecedence ==
    last.op = "construct" =>
        LET expected == IF last.savedTheme = Some("dark") THEN TRUE
                        ELSE IF last.savedTheme = Some("light") THEN FALSE
                        ELSE prefersDark
        IN  /\ IsDark <=> expected
            /\ css = VariablesOf(expected)
C1_Witness ==
    /\ last.op = "construct"
    /\ last.savedTheme = Some("light")
    /\ prefersDark
    /\ ~IsDark

\* C2: the constructor applies the stored language when it is a supported
\* code, otherwise the lower-cased primary subtag of the browser locale when
\* that is supported, otherwise 'en'; the result is always a supported code.
PrimarySubtagLowerCased(locale) ==
    CASE locale = <<"f", "r", "-", "C", "A">> -> "fr"
      [] locale = <<"F", "R">> -> "fr"
      [] locale = <<"s", "v", "-", "S", "E">> -> "sv"
C2_LanguageResolution ==
    last.op = "construct" =>
        LET subtag == PrimarySubtagLowerCased(last.navigatorLanguage)
            expected == IF last.savedLanguage # Null /\ last.savedLanguage[1] \in Supported
                        THEN last.savedLanguage[1]
                        ELSE IF subtag \in Supported THEN subtag
                        ELSE "en"
        IN  lang = expected /\ lang \in Supported
C2_Witness ==
    /\ last.op = "construct"
    /\ last.savedLanguage = Some("xx")
    /\ last.navigatorLanguage = <<"F", "R">>
    /\ lang = "fr"

\* C3: setLanguage with an unsupported code writes 'en' to the lang attribute
\* and to 'portfolio-language', for either value of animate; once the page is
\* constructed both always hold a supported code.
C3_UnsupportedBecomesDefault ==
    /\ (last.op = "setLanguage" /\ last.langCode \notin Supported) =>
          (lang = "en" /\ StoredLanguage = Some("en"))
    /\ page = "ready" =>
          (lang \in Supported /\ StoredLanguage # Null /\ StoredLanguage[1] \in Supported)
C3_Witness ==
    /\ last.op = "setLanguage"
    /\ last.langCode = "xx"
    /\ streak = 2
    /\ lang = "en"
    /\ StoredLanguage = Some("en")

\* C4: getTranslation gives the table entry of (language, key) when the table
\* has one, otherwise the entry of ('en', key) when the table has one,
\* otherwise the key itself; the result is a non-empty string.
TableHas(langCode, key) == langCode \in Supported /\ key \in TranslationKeys
C4_ThreeTierFallback ==
    last.op = "getTranslation" =>
        /\ last.result = IF TableHas(last.langCode, last.key)
                         THEN StringValue(translations[last.langCode][last.key])
                         ELSE IF TableHas("en", last.key)
                         THEN StringValue(translations["en"][last.key])
                         ELSE StringValue(last.key)
        /\ last.result.value # ""

\* C5: from any state of a constructed page, a second setTheme(p, false) right
\* after the first leaves the root classes, the 7 custom properties and the
\* stored theme as the first left them, with the dark class at most once.
ThemeState(s) == <<s.classList, s.css, getItem(s.storage, THEME_STORAGE_KEY)>>
C5_SetThemeIdempotent ==
    page = "ready" =>
        \A p \in BOOLEAN :
            LET once == setTheme(Cur, p, FALSE)
                twice == setTheme(once, p, FALSE)
            IN  /\ ThemeState(twice) = ThemeState(once)
                /\ Occurrences(twice.classList, THEME_CLASS) <= 1
                /\ twice.css = VariablesOf(p)
                /\ getItem(twice.storage, THEME_STORAGE_KEY) = Some(ThemeName(p))
C5_Witness ==
    /\ last = [op |-> "setTheme", isDark |-> TRUE, animate |-> FALSE]
    /\ streak = 2
    /\ Occurrences(classList, THEME_CLASS) = 1

\* C6: while 'portfolio-theme' holds a value, a change of the OS preference
\* changes neither the root classes, nor the stored theme, nor the 7 custom
\* properties.
C6_StoredThemeShieldsFromSystem ==
    [][(prefersDark' # prefersDark /\ page = "ready" /\ StoredTheme # Null)
          => UNCHANGED <<classList, storage, css>>]_vars
C6_Witness ==
    /\ last.op = "systemThemeChange"
    /\ page = "ready"
    /\ last.savedTheme = Some("light")
    /\ prefersDark
    /\ ~IsDark

\* C7: on a page loaded with no stored theme, where no theme has been chosen
\* since, a change of the OS preference makes the applied theme the new OS value.
C7_SystemChangeFollowed ==
    [][(prefersDark' # prefersDark /\ page = "ready" /\ ~explicitChoice)
          => (ClassListContains(classList', THEME_CLASS) <=> prefersDark')]_vars

\* C8: resetToSystemPreferences leaves neither key in the store and a page that
\* is loading; the constructor that runs next, with the OS preferring dark and
\* the locale 'fr-CA', applies and stores the dark theme and the language 'fr'.
C8_ResetRoundTrip ==
    /\ last.op = "reset" =>
          (StoredTheme = Null /\ StoredLanguage = Null /\ page = "loading")
    /\ (last.op = "construct" /\ last.afterReset) =>
          (last.savedTheme = Null /\ last.savedLanguage = Null)
    /\ (/\ last.op = "construct" /\ last.afterReset
        /\ prefersDark /\ last.navigatorLanguage = <<"f", "r", "-", "C", "A">>) =>
          /\ IsDark /\ css = DarkVariables /\ StoredTheme = Some("dark")
          /\ lang = "fr" /\ StoredLanguage = Some("fr")
C8_Witness ==
    /\ last.op = "construct" /\ last.afterReset
    /\ prefersDark /\ last.navigatorLanguage = <<"f", "r", "-", "C", "A">>
    /\ IsDark /\ lang = "fr"

\* C9: toggleTheme applies the inverse of the theme the root's dark class
\* shows: right after it the dark class is flipped, the transition class is
\* present and 'portfolio-theme' holds the new theme; a second toggle restores
\* the theme and the stored value.
C9_ToggleInverts ==
    /\ last.op = "toggleTheme" =>
          /\ IsDark = ~last.wasDark
          /\ ClassListContains(classList, TRANSITION_CLASS)
          /\ StoredTheme = Some(ThemeName(~last.wasDark))
    /\ page = "ready" =>
          LET once == toggleTheme(Cur)
              twice == toggleTheme(once)
          IN  /\ ClassListContains(once.classList, THEME_CLASS) = ~IsDark
              /\ ClassListContains(twice.classList, THEME_CLASS) = IsDark
              /\ getItem(twice.storage, THEME_STORAGE_KEY) = StoredTheme
C9_Witness ==
    /\ last.op = "toggleTheme"
    /\ streak = 2
    /\ last.wasDark
    /\ ~IsDark
    /\ ClassListContains(classList, TRANSITION_CLASS)

\* C10: on a constructed page with the toggle button, the button's aria-label
\* and icon show the theme the root has: 'Switch to light theme' and the sun
\* when dark, 'Switch to dark theme' and the moon when light.
C10_ButtonMirrorsTheme ==
    (page = "ready" /\ hasToggle) =>
        toggleButton = [ariaLabel |-> IF IsDark THEN "Switch to light theme"
                                      ELSE "Switch to dark theme",
                        innerHTML |-> IF IsDark THEN "sun" ELSE "moon"]


\* What the table gives for a key in a language: the language's entry, else
\* the English entry, else the key.
TableText(langCode, key) ==
    IF TableHas(langCode, key) THEN translations[langCode][key]
    ELSE IF TableHas("en", key) THEN translations["en"][key]
    ELSE key
\* The tagged elements, the title and the description show a language.
Shows(texts, pageTitle, description, langCode) ==
    /\ \A i \in 1..Len(Elements) :
          (IF Elements[i].tagName \in {"INPUT", "TEXTAREA"}
           THEN texts[i].placeholder ELSE texts[i].textContent)
             = TableText(langCode, Elements[i].key)
    /\ pageTitle = TableText(langCode, "page-title")
    /\ description = TableText(langCode, "page-description")
ShowsLanguage(langCode) == Shows(text, title, metaDescription, langCode)
LanguageTimers == SelectSeq(timers, LAMBDA t : t.kind \in {"languageSwap", "fadeCleanup"})
ThemeTimers == SelectSeq(timers, LAMBDA t : t.kind = "themeCleanup")
SwapTimers == SelectSeq(timers, LAMBDA t : t.kind = "languageSwap")

\* C11: an animated setLanguage with a supported code sets the lang attribute
\* and the stored language within the call and leaves the text, the title, the
\* description and the event log as they were, with the swap scheduled 150 ms
\* later; the text changes only in a step that fires a language swap, and a
\* language event is dispatched only in such a step, with the text already
\* that of the event's code and with langCode and language the same code.
C11_SwapThenAnnounce ==
    [][ /\ (last'.op = "setLanguage" /\ last'.animate /\ last'.langCode \in Supported) =>
              /\ lang' = last'.langCode
              /\ getItem(storage', LANGUAGE_STORAGE_KEY) = Some(last'.langCode)
              /\ text' = text /\ title' = title /\ metaDescription' = metaDescription
              /\ languageEvents' = languageEvents
              /\ timers' = Append(timers, [kind |-> "languageSwap", due |-> 150,
                                           langCode |-> last'.langCode, animate |-> TRUE])
        /\ (page = "ready" /\ page' = "ready" /\
            (text' # text \/ title' # title \/ metaDescription' # metaDescription
               \/ languageEvents' # languageEvents)) =>
              /\ last'.op = "timer" /\ last'.kind = "languageSwap"
              /\ \E i \in 1..Len(timers) :
                    /\ timers[i].kind = "languageSwap" /\ timers[i].due = 0
                    /\ languageEvents' = Append(languageEvents,
                                                [langCode |-> timers[i].langCode,
                                                 language |-> timers[i].langCode])
                    /\ Shows(text', title', metaDescription', timers[i].langCode) ]_vars
\* An animated change to German has been swapped in and announced.
C11_Witness ==
    /\ last.op = "timer" /\ last.kind = "languageSwap"
    /\ lang = "de" /\ StoredLanguage = Some("de")
    /\ style.opacity = "1"
    /\ ShowsLanguage("de")
    /\ languageEvents # <<>>
    /\ languageEvents[Len(languageEvents)] = [langCode |-> "de", language |-> "de"]

\* C12, as stated: in every state after initialization the text shown is the
\* table's text for the current language and the CSS variables are those of
\* the current theme, whatever timer is pending.
C12_DisplayFollowsPreferences ==
    page = "ready" =>
        /\ ShowsLanguage(lang)
        /\ css = VariablesOf(IsDark)
\* C12, amended: in every state after initialization the CSS variables are
\* those of the current theme, and whenever no language swap is pending the
\* text shown is the table's text for the current language.
C12_DisplayFollowsOnceSwapped ==
    page = "ready" =>
        /\ css = VariablesOf(IsDark)
        /\ StoredTheme = Some(ThemeName(IsDark))
        /\ PendingSwaps = 0 => ShowsLanguage(lang)
\* A dark German page with every swap fired, after more than the initial change.
C12_Witness ==
    /\ page = "ready" /\ PendingSwaps = 0
    /\ Len(languageEvents) >= 2
    /\ lang = "de" /\ ShowsLanguage("de") /\ ~ShowsLanguage("en")
    /\ IsDark /\ css = DarkVariables

\* C13: with the store unavailable no handler ends in an uncaught error, the
\* constructor completes, setTheme still leaves the class, the seven CSS
\* variables and a theme event for the requested theme, and setLanguage still
\* sets the lang attribute and has the text replacement scheduled.
C13_SessionOnlyWithoutStore ==
    ~storageAvailable =>
        /\ ~uncaught
        /\ last.op = "construct" => page = "ready"
        /\ last.op = "setTheme" =>
              /\ IsDark = last.isDark
              /\ css = VariablesOf(last.isDark)
              /\ themeEvents # <<>>
              /\ themeEvents[Len(themeEvents)] =
                    [isDark |-> last.isDark, theme |-> ThemeName(last.isDark)]
        /\ last.op = "setLanguage" =>
              /\ lang = (IF last.langCode \in Supported THEN last.langCode ELSE "en")
              /\ PendingSwaps > 0 \/ ShowsLanguage(lang)

\* C14: construction with no stored theme under a dark system preference sets
\* the dark class and stores 'dark' without the transition class and without
\* a class-removal timer, and dispatches exactly one theme event, {isDark:
\* true, theme: 'dark'}; no construction animates; every theme event has
\* theme 'dark' exactly when isDark, and the latest one agrees with the dark
\* class and the stored theme from its dispatch on.
C14_InitialLoadAnnounced ==
    /\ last.op = "construct" =>
          /\ ~ClassListContains(classList, TRANSITION_CLASS)
          /\ ThemeTimers = <<>>
          /\ Len(themeEvents) = 1
          /\ (last.savedTheme = Null /\ prefersDark) =>
                /\ IsDark
                /\ StoredTheme = Some("dark")
                /\ themeEvents = << [isDark |-> TRUE, theme |-> "dark"] >>
    /\ \A i \in 1..Len(themeEvents) :
          /\ themeEvents[i].theme \in {"dark", "light"}
          /\ themeEvents[i].theme = "dark" <=> themeEvents[i].isDark
    /\ themeEvents # <<>> =>
          /\ themeEvents[Len(themeEvents)].isDark = IsDark
          /\ StoredTheme = Some(themeEvents[Len(themeEvents)].theme)
\* A first visit under a dark system preference has just been constructed.
C14_Witness ==
    /\ last.op = "construct" /\ last.savedTheme = Null /\ ~last.afterReset
    /\ prefersDark /\ IsDark
    /\ themeEvents = << [isDark |-> TRUE, theme |-> "dark"] >>
    /\ timers # <<>>

\* C15: the last setLanguage call wins.  The call leaves the lang attribute
\* and the stored language at its resolved code, and its swap is the newest
\* one pending; the lang attribute and the stored language always agree; and
\* once every pending swap has fired, the text shown, the lang attribute and
\* the stored language are those of the last call and the last language event
\* carries its code, whatever calls overlapped before.
C15_LastLanguageWins ==
    page = "ready" =>
        /\ StoredLanguage = Some(lang)
        /\ last.op \in {"setLanguage", "selectLanguage"} =>
              lang = (IF last.langCode \in Supported THEN last.langCode ELSE "en")
        /\ SwapTimers # <<>> => SwapTimers[Len(SwapTimers)].langCode = lang
        /\ SwapTimers = <<>> =>
              /\ ShowsLanguage(lang)
              /\ languageEvents # <<>>
              /\ languageEvents[Len(languageEvents)] = [langCode |-> lang, language |-> lang]
\* The swap of an earlier call has just fired although a later call for
\* another language had already been made: that call's swap is due too.
C15_Witness ==
    /\ last.op = "timer" /\ last.kind = "languageSwap"
    /\ Len(SwapTimers) = 1 /\ SwapTimers[1].due = 0
    /\ SwapTimers[1].langCode = lang
    /\ Len(languageEvents) >= 2
    /\ languageEvents[Len(languageEvents)].langCode # lang
    /\ ~ShowsLanguage(lang)

\* C16: an animated theme change leaves the transition class on the root and
\* its removal scheduled 300 ms later; a non-animated one neither adds the
\* class nor schedules anything; whenever no theme timer is pending the class
\* is absent; and a transition class that is present is eventually removed.
C16_TransitionClassCleanedUp ==
    /\ [](page = "ready" =>
            /\ ThemeTimers = <<>> => ~ClassListContains(classList, TRANSITION_CLASS)
            /\ last.op = "toggleTheme" =>
                  /\ ClassListContains(classList, TRANSITION_CLASS)
                  /\ ThemeTimers # <<>>
                  /\ ThemeTimers[Len(ThemeTimers)].due = 300)
    /\ [][ (last'.op = "setTheme" /\ ~last'.animate) =>
              /\ ClassListContains(classList', TRANSITION_CLASS)
                    <=> ClassListContains(classList, TRANSITION_CLASS)
              /\ timers' = timers ]_vars
    /\ ClassListContains(classList, TRANSITION_CLASS)
          ~> ~ClassListContains(classList, TRANSITION_CLASS)
\* The removal scheduled by the last of two animated changes has just run.
C16_Witness ==
    /\ last.op = "timer" /\ last.kind = "themeCleanup"
    /\ ThemeTimers = <<>>
    /\ ~ClassListContains(classList, TRANSITION_CLASS)
    /\ Len(themeEvents) >= 3

\* C17: once every pending language callback (150 ms swap and 300 ms cleanup)
\* has run, the body's inline transition is cleared and its opacity is not
\* left at '0.7': it is '1' if any change was animated (a cleanup has just
\* run), and untouched otherwise.
C17_FadeCleanedUp ==
    (page = "ready" /\ LanguageTimers = <<>>) =>
        /\ style.transition = ""
        /\ style.opacity \in {"", "1"}
        /\ (last.op = "timer" /\ last.kind = "fadeCleanup") => style.opacity = "1"
\* Two changes followed the initial one, and the last cleanup has run.
C17_Witness ==
    /\ page = "ready" /\ LanguageTimers = <<>>
    /\ last.op = "timer" /\ last.kind = "fadeCleanup"
    /\ Len(languageEvents) = 3
    /\ style = [opacity |-> "1", transition |-> ""]

\* C18: a theme step (setTheme, toggleTheme, the system listener, the
\* class-removal callback) leaves the lang attribute, the stored language, the
\* text shown and the body's opacity and transition as they were; a language
\* step (setLanguage, the selector, the swap and fade callbacks) leaves the
\* root's classes, the stored theme and the seven CSS variables as they were.
C18_ThemeAndLanguageIndependent ==
    [][ /\ (page = "ready" /\
            (last'.op \in {"setTheme", "toggleTheme", "systemThemeChange"}
               \/ (last'.op = "timer" /\ last'.kind = "themeCleanup"))) =>
              /\ lang' = lang
              /\ getItem(storage', LANGUAGE_STORAGE_KEY) = getItem(storage, LANGUAGE_STORAGE_KEY)
              /\ text' = text /\ title' = title /\ metaDescription' = metaDescription
              /\ style' = style
        /\ (page = "ready" /\
            (last'.op \in {"setLanguage", "selectLanguage"}
               \/ (last'.op = "timer" /\ last'.kind \in {"languageSwap", "fadeCleanup"}))) =>
              /\ classList' = classList
              /\ getItem(storage', THEME_STORAGE_KEY) = getItem(storage, THEME_STORAGE_KEY)
              /\ css' = css ]_vars
\* A language swap has run on a dark page in the middle of a theme transition.
C18_Witness ==
    /\ last.op = "timer" /\ last.kind = "languageSwap"
    /\ IsDark /\ ClassListContains(classList, TRANSITION_CLASS)
    /\ lang = "de" /\ ShowsLanguage("de")
    /\ StoredTheme = Some("dark") /\ css = DarkVariables

\* C19: on a page with the language selector, construction leaves the
\* selector's value equal to the lang attribute and to the stored language,
\* a supported code, whatever was stored and whatever the locale; and a change
\* of the selector does what setLanguage(selected, true) does: lang and the
\* stored language become the selected code, the fade starts and the swap is
\* scheduled as an animated one.
C19_SelectorMirrorsLanguage ==
    /\ (last.op = "construct" /\ hasSelect) =>
          /\ selectValue = lang
          /\ StoredLanguage = Some(selectValue)
          /\ selectValue \in Supported
          /\ TruthyItem(last.savedLanguage) /\ last.savedLanguage[1] \in Supported
                => selectValue = last.savedLanguage[1]
    /\ last.op = "selectLanguage" =>
          /\ hasSelect /\ selectValue = last.langCode
          /\ lang = last.langCode
          /\ StoredLanguage = Some(last.langCode)
          /\ style = [opacity |-> "0.7", transition |-> "opacity 0.3s ease-in-out"]
          /\ timers # <<>>
          /\ timers[Len(timers)] = [kind |-> "languageSwap", due |-> 150,
                                    langCode |-> last.langCode, animate |-> TRUE]
\* A page with the selector was constructed over an unsupported stored code
\* under a French locale: the selector shows French, as the page does.
C19_Witness ==
    /\ last.op = "construct" /\ hasSelect
    /\ last.savedLanguage = Some("xx")
    /\ last.navigatorLanguage = <<"f", "r", "-", "C", "A">>
    /\ selectValue = "fr" /\ lang = "fr" /\ StoredLanguage = Some("fr")

\* C20: from construction until a reset, after any theme or language call,
\* system change or callback, both keys are present in the store, the stored
\* theme is 'dark' exactly when the root has the dark class, and the stored
\* language is the value of the lang attribute.
C20_StoreAgreesWithDocument ==
    page = "ready" =>
        /\ StoredTheme # Null /\ StoredLanguage # Null
        /\ StoredTheme[1] \in {"dark", "light"}
        /\ StoredTheme[1] = "dark" <=> IsDark
        /\ StoredLanguage[1] = lang
\* A page that was loaded light and in French by default is dark and German
\* after a toggle and a selection, with the store following.
C20_Witness ==
    /\ page = "ready"
    /\ Len(themeEvents) >= 2 /\ Len(languageEvents) >= 2
    /\ themeEvents[1].theme = "light" /\ languageEvents[1].langCode = "fr"
    /\ IsDark /\ StoredTheme = Some("dark")
    /\ lang = "de" /\ StoredLanguage = Some("de")

=============================================================================
